---- MODULE Spec2Model ----
(***************************************************************************)
(* A model of fancy_clap's argument locator.                               *)
(*                                                                         *)
(*   parse.rs  ArgLocator::get_locations / get_location  (specification    *)
(*             Spec): the scan of the Argv tokens that fills one           *)
(*             ArgLocation per target, and the lazily built alias index    *)
(*             of ArgLocator::from_command_factory.                        *)
(*   lex.rs    ArgLocator::get_location  (specification SpecLex): the      *)
(*             earlier one-target scan, which returns (offset, length),    *)
(*             and its BTreeMap alias index, get_arg_aliases.              *)
(*   alias.rs  ClapAliasesMapper::get_arg / get_derived_mapper             *)
(*             (specification SpecAlias): calls made one after the other   *)
(*             on one mapper, and on one locator's get_arg_by_alias.       *)
(*                                                                         *)
(* parse.rs holds an unresolved merge; the model follows the side the      *)
(* file calls "Stashed changes" (get_locations over several targets, with  *)
(* get_location as its one-target call).  `results` is modelled as the     *)
(* function's declared result, Vec<Option<ArgLocation>> with one slot per  *)
(* target, every slot None until `resolve` fills it.                       *)
(*                                                                         *)
(* A text (String, OsStr) is a sequence of one-character strings, so that  *)
(* its length and its bytes are what the model computes with.  All texts   *)
(* of the model are ASCII: one character is one byte, and every OsStr is   *)
(* valid UTF-8.  Option<T> is a sequence of at most one element.           *)
(***************************************************************************)
EXTENDS Integers, Sequences, FiniteSets, TLC

VARIABLES
    command,      \* the clap::Command the locator was made from (its arguments)
    args,         \* the Argv tokens handed to the call
    targets,      \* the ids of the arguments to locate
    cursor,       \* clap_lex::ArgCursor: index of the next token to read
    name,         \* parse.rs: the running ArgPart `name` (its offset is the byte cursor)
    declaration,  \* parse.rs: `declaration` of the short cluster being walked
    shorts,       \* clap_lex::ShortFlags: the characters of the cluster not read yet
    results,      \* parse.rs: `results`, one Option<ArgLocation> per target
    resolved,     \* parse.rs: `resolved`
    arg_aliases,  \* parse.rs: the OnceCell holding the sorted alias index
    pc,           \* where the call stands: "start", "cursor", "peek", "shorts",
                  \* "done", "panic"; "ready" between the calls on a mapper
    origin,       \* history: for each filled slot, the token and texts it was filled from
    lex_arg,      \* lex.rs: `arg`, the id of the argument to locate
    offset,       \* lex.rs: `offset`
    length,       \* lex.rs: `length` of the matched long option
    parsed_long,  \* lex.rs: `long` and `accompany` of the matched long option
    lex_location, \* lex.rs: what get_location returned, Option<(usize, usize)>
    lex_arg_aliases,   \* lex.rs: the OnceCell `arg_aliases` holding the BTreeMap
    include_arg_name,  \* lex.rs: the field of that name
    force_lossy_os,    \* lex.rs: the field of that name
    iter,         \* history: parity of the iterations of the peek loop of lex.rs
    mapper,       \* alias.rs: the ClapAliasesMapper (command, arg_aliases, command_aliases)
    returned,     \* alias.rs: what the last call on the mapper or locator returned
    called,       \* history: the last call, its function and the alias it was given
    calls,        \* history: the number of calls made of each function
    builds        \* history: the number of runs of each get_or_init closure

parseVars == <<targets, name, declaration, results, resolved, arg_aliases, origin>>

lexVars == <<lex_arg, offset, length, parsed_long, lex_location, lex_arg_aliases, include_arg_name,
             force_lossy_os, iter>>

aliasVars == <<mapper, returned, called, calls, builds>>

vars == <<command, args, cursor, shorts, pc, parseVars, lexVars, aliasVars>>

-----------------------------------------------------------------------------
(* Option<T> *)

None == <<>>
Some(x) == <<x>>
IsSome(o) == o # <<>>
Unwrap(o) == o[1]

-----------------------------------------------------------------------------
(* Bounds of the model *)

MaxTokens == 2
MaxTargets == 2

-----------------------------------------------------------------------------
(* Texts and their order *)

ByteOf(c) ==
    CASE c = " " -> 32 [] c = "-" -> 45 [] c = "1" -> 49 [] c = "=" -> 61
      [] c = "a" -> 97 [] c = "c" -> 99 [] c = "d" -> 100 [] c = "h" -> 104
      [] c = "i" -> 105 [] c = "m" -> 109 [] c = "n" -> 110 [] c = "o" -> 111
      [] c = "s" -> 115 [] c = "u" -> 117 [] c = "v" -> 118 [] c = "x" -> 120
      [] c = "y" -> 121

\* Ord for String: bytewise lexicographic, a proper prefix first.
RECURSIVE StrLess(_, _)
StrLess(a, b) ==
    IF b = <<>> THEN FALSE
    ELSE IF a = <<>> THEN TRUE
    ELSE IF ByteOf(Head(a)) # ByteOf(Head(b)) THEN ByteOf(Head(a)) < ByteOf(Head(b))
    ELSE StrLess(Tail(a), Tail(b))

StartsWith(s, p) == Len(s) >= Len(p) /\ SubSeq(s, 1, Len(p)) = p

strip_prefix(s, p) ==
    IF StartsWith(s, p) THEN Some(SubSeq(s, Len(p) + 1, Len(s))) ELSE None

\* str::split_once at the first occurrence of the character c.
split_once(s, c) ==
    IF \E i \in 1..Len(s) : s[i] = c
    THEN LET i == CHOOSE k \in 1..Len(s) : s[k] = c /\ \A j \in 1..(k - 1) : s[j] # c
         IN Some([p0 |-> SubSeq(s, 1, i - 1), p1 |-> SubSeq(s, i + 1, Len(s))])
    ELSE None

-----------------------------------------------------------------------------
(* ArgAlias, ArgPart, ArgLocation *)

Long(text) == [kind |-> "Long", text |-> text]
Short(ch) == [kind |-> "Short", text |-> <<ch>>]

\* derive(Ord) on ArgAlias: every Long before every Short, then by the payload.
AliasLess(a, b) ==
    IF a.kind # b.kind THEN a.kind = "Long" ELSE StrLess(a.text, b.text)

DELIMITER_LENGTH == 1
SHORT_LENGTH == 1
LONG_DECLARATION_LENGTH == 2
SHORT_DECLARATION_LENGTH == 1

ArgPart(off, len) == [offset |-> off, length |-> len]

Discrete(decl, nm) == [kind |-> "Discrete", declaration |-> decl, name |-> nm]

Stuck(decl, nm, content) ==
    [kind |-> "Stuck", declaration |-> decl, name |-> nm, content |-> content]

new_complete(decl, nm, content_length) ==
    LET delimiter == ArgPart(nm.offset + nm.length, DELIMITER_LENGTH)
        content == ArgPart(delimiter.offset + delimiter.length, content_length)
    IN [kind |-> "Complete", declaration |-> decl, name |-> nm,
        delimiter |-> delimiter, content |-> content]

-----------------------------------------------------------------------------
(* clap: the arguments of a Command and what the code reads of them *)

Arg(id, long, aliases, short, short_aliases, num_args, allow_hyphen_values, bool_values) ==
    [id |-> id, long |-> long, aliases |-> aliases, short |-> short,
     short_aliases |-> short_aliases, num_args |-> num_args,
     allow_hyphen_values |-> allow_hyphen_values, bool_values |-> bool_values]

\* A command in the manner of the doc examples and tests of parse.rs and alias.rs:
\*   discrete  -d -x --dis --d   a flag, with one more long and one more short alias
\*   stuck     -s                takes a value, no long, num_args left unset,
\*                               allow_hyphen_values
\*   complete  -c --com          takes one value, canonical names only
MainCommand ==
    << Arg("discrete", Some(<<"d", "i", "s">>), << <<"d">> >>, Some("d"), <<"x">>,
           Some(0), FALSE, TRUE),
       Arg("stuck", None, <<>>, Some("s"), <<>>, None, TRUE, FALSE),
       Arg("complete", Some(<<"c", "o", "m">>), <<>>, Some("c"), <<>>,
           Some(1), FALSE, FALSE) >>

\* A command whose only argument is positional: it declares no alias at all.
PositionalCommand ==
    << Arg("input", None, <<>>, None, <<>>, Some(1), FALSE, FALSE) >>

Commands == {MainCommand, PositionalCommand}

get_arguments(cmd) == cmd
get_id(arg) == arg.id
get_long(arg) == arg.long
get_short(arg) == arg.short
\* clap: None when the argument declares no (short) alias, else all of them.
get_all_aliases(arg) == IF arg.aliases = <<>> THEN None ELSE Some(arg.aliases)
get_all_short_aliases(arg) ==
    IF arg.short_aliases = <<>> THEN None ELSE Some(arg.short_aliases)
is_allow_hyphen_values_set(arg) == arg.allow_hyphen_values
unwrap_or_default(o) == IF IsSome(o) THEN Unwrap(o) ELSE <<>>

\* ValueRange::takes_values of num_args, 1 when num_args is unset.
is_arg_discrete(arg) ==
    LET range == IF IsSome(arg.num_args) THEN Unwrap(arg.num_args) ELSE 1
    IN ~(range # 0)

-----------------------------------------------------------------------------
(* clap_lex: RawArgs, ParsedArg, ShortFlags *)

\* ParsedArg::to_long: "--" then a non-empty remainder, split at the first "=".
to_long(tok) ==
    LET remainder == strip_prefix(tok, <<"-", "-">>)
    IN IF ~IsSome(remainder) THEN None
       ELSE IF Unwrap(remainder) = <<>> THEN None
       ELSE LET split == split_once(Unwrap(remainder), "=")
            IN IF IsSome(split)
               THEN Some([long |-> Unwrap(split).p0, accompany |-> Some(Unwrap(split).p1)])
               ELSE Some([long |-> Unwrap(remainder), accompany |-> None])

\* ParsedArg::to_short: "-" then a non-empty remainder that does not start with "-".
to_short(tok) ==
    LET remainder == strip_prefix(tok, <<"-">>)
    IN IF ~IsSome(remainder) THEN None
       ELSE IF StartsWith(Unwrap(remainder), <<"-">>) THEN None
       ELSE IF Unwrap(remainder) = <<>> THEN None
       ELSE Some(Unwrap(remainder))

to_value_os(tok) == tok

\* RawArgs::peek at cursor position `at`.
peek(argv, at) == IF at <= Len(argv) THEN Some(argv[at]) ELSE None

\* ShortFlags::next_value_os: what is left of the cluster, None when nothing is.
next_value_os(rest) == IF rest # <<>> THEN Some(rest) ELSE None

\* ShortFlags after next_value_os as it would be if the call left the characters
\* it returned in the iterator.
after_next_value_os_keeps(rest) == rest

\* ShortFlags after next_value_os: the call takes all that is left, next_flag
\* has nothing more to give.
after_next_value_os(rest) == <<>>

-----------------------------------------------------------------------------
(* The alias index of ArgLocator::from_command_factory *)

RECURSIVE LongEntries(_, _)
LongEntries(longs, arg) ==
    IF longs = <<>> THEN <<>>
    ELSE <<[alias |-> Long(Head(longs)), arg |-> arg]>> \o LongEntries(Tail(longs), arg)

RECURSIVE ShortEntries(_, _)
ShortEntries(chars, arg) ==
    IF chars = <<>> THEN <<>>
    ELSE <<[alias |-> Short(Head(chars)), arg |-> arg]>> \o ShortEntries(Tail(chars), arg)

\* The canonical name chained with the declared aliases, longs then shorts.
EntriesOfArg(arg) ==
    LongEntries(get_long(arg) \o unwrap_or_default(get_all_aliases(arg)), arg)
    \o ShortEntries(get_short(arg) \o unwrap_or_default(get_all_short_aliases(arg)), arg)

RECURSIVE CollectAliases(_)
CollectAliases(arguments) ==
    IF arguments = <<>> THEN <<>>
    ELSE EntriesOfArg(Head(arguments)) \o CollectAliases(Tail(arguments))

\* Insertion of one entry into a sequence sorted by AliasLess.
RECURSIVE InsertSorted(_, _)
InsertSorted(e, sorted) ==
    IF sorted = <<>> THEN <<e>>
    ELSE IF AliasLess(e.alias, Head(sorted).alias) THEN <<e>> \o sorted
    ELSE <<Head(sorted)>> \o InsertSorted(e, Tail(sorted))

\* aliases.sort_unstable_by(|(a, _), (b, _)| a.cmp(b))
RECURSIVE sort_unstable_by(_)
sort_unstable_by(v) ==
    IF v = <<>> THEN <<>> ELSE InsertSorted(Head(v), sort_unstable_by(Tail(v)))

\* slice::binary_search_by(|(k, _)| k.cmp(alias)) on v[lo+1 .. hi].
RECURSIVE binary_search_by(_, _, _, _)
binary_search_by(v, alias, lo, hi) ==
    IF lo >= hi THEN None
    ELSE LET mid == lo + ((hi - lo) \div 2)
             k == v[mid + 1].alias
         IN IF k = alias THEN Some(mid + 1)
            ELSE IF AliasLess(k, alias) THEN binary_search_by(v, alias, mid + 1, hi)
            ELSE binary_search_by(v, alias, lo, mid)

\* The closure of get_or_init: the sorted entries, or the panic of
\* NonEmpty::from_vec(aliases).expect(..) when there is no entry.
BuildArgAliases(cmd) ==
    LET aliases == sort_unstable_by(CollectAliases(get_arguments(cmd)))
    IN [panicked |-> aliases = <<>>, cache |-> aliases]

\* get_arg_by_alias as it would be with the lookup unwrapped by expect, as
\* lex.rs does: an alias that is not in the index panics.
get_arg_by_alias_expect(cell, cmd, alias) ==
    LET built == IF IsSome(cell) THEN [panicked |-> FALSE, cache |-> Unwrap(cell)]
                 ELSE BuildArgAliases(cmd)
        index == binary_search_by(built.cache, alias, 0, Len(built.cache))
    IN IF built.panicked \/ ~IsSome(index)
       THEN [cell |-> cell, panicked |-> TRUE, found |-> None]
       ELSE [cell |-> Some(built.cache), panicked |-> FALSE,
             found |-> Some(built.cache[Unwrap(index)].arg)]

\* get_arg_by_alias: the cell after the call, whether the build panicked, and
\* the argument found (None to skip).
get_arg_by_alias(cell, cmd, alias) ==
    LET built == IF IsSome(cell) THEN [panicked |-> FALSE, cache |-> Unwrap(cell)]
                 ELSE BuildArgAliases(cmd)
        index == binary_search_by(built.cache, alias, 0, Len(built.cache))
    IN IF built.panicked THEN [cell |-> cell, panicked |-> TRUE, found |-> None]
       ELSE [cell |-> Some(built.cache), panicked |-> FALSE,
             found |-> IF IsSome(index) THEN Some(built.cache[Unwrap(index)].arg)
                       ELSE None]

-----------------------------------------------------------------------------
(* The inputs of a call *)

\* The tokens a command line is made of here:
\*   va  --dis  --d  --com=1  --com  --un  -dd  -ds-d  -s=va  -s  -ds  -ud
\* (--un and the u of -ud are aliases no argument declares).
Tokens ==
    { <<"v", "a">>,
      <<"-", "-", "d", "i", "s">>,
      <<"-", "-", "d">>,
      <<"-", "-", "c", "o", "m", "=", "1">>,
      <<"-", "-", "c", "o", "m">>,
      <<"-", "-", "u", "n">>,
      <<"-", "d", "d">>,
      <<"-", "d", "s", "-", "d">>,
      <<"-", "s", "=", "v", "a">>,
      <<"-", "s">>,
      <<"-", "d", "s">>,
      <<"-", "u", "d">> }

\* The ids a caller can ask for: those of the command's arguments.
TargetIds(cmd) == {get_id(cmd[i]) : i \in 1..Len(cmd)}

SeqsUpTo(S, n) == UNION {[1..k -> S] : k \in 0..n}

\* The Argv string: the tokens joined by one space.
RECURSIVE Flatten(_)
Flatten(argv) ==
    IF argv = <<>> THEN <<>>
    ELSE IF Len(argv) = 1 THEN Head(argv)
    ELSE Head(argv) \o <<" ">> \o Flatten(Tail(argv))

\* Byte offset in the Argv string of the first byte of token i.
RECURSIVE TokenStart(_, _)
TokenStart(argv, i) ==
    IF i <= 1 THEN 0 ELSE TokenStart(argv, i - 1) + Len(argv[i - 1]) + 1

\* The bytes [offset, offset + length) of the Argv string.
Slice(text, part) == SubSeq(text, part.offset + 1, part.offset + part.length)

-----------------------------------------------------------------------------
(* ArgLocator::get_locations *)

\* position as it would be if a match took the next free slot, in the order of
\* the matches, instead of the slot of its target.
position_by_occurrence(ts, id) ==
    IF \E i \in 1..Len(ts) : ts[i] = id
    THEN Some(IF resolved < Len(ts) THEN resolved + 1 ELSE Len(ts))
    ELSE None

\* targets.iter().position(|target| target == found.get_id())
position(ts, id) ==
    IF \E i \in 1..Len(ts) : ts[i] = id
    THEN Some(CHOOSE i \in 1..Len(ts) : ts[i] = id /\ \A j \in 1..(i - 1) : ts[j] # id)
    ELSE None

\* The closure peek_or_discrete, `at` being the cursor position it peeks at.
peek_or_discrete(arg, decl, nm, at) ==
    LET next == peek(args, at)
    IN IF IsSome(next)
          /\ (is_allow_hyphen_values_set(arg)
              \/ (to_long(Unwrap(next)) = None /\ to_short(Unwrap(next)) = None))
       THEN new_complete(decl, nm, Len(to_value_os(Unwrap(next))))
       ELSE Discrete(decl, nm)

\* resolve as it would be if it pushed the result instead of storing it at index.
resolve_push(slots, index, result) ==
    [slots EXCEPT ![IF resolved < Len(slots) THEN resolved + 1 ELSE Len(slots)] =
                      Some(result)]

\* The closure resolve: results[index] = result.
resolve(slots, index, result) == [slots EXCEPT ![index] = Some(result)]

\* long_name as it would be if the name's length counted the two hyphens too.
long_name_with_hyphens(nm, long) ==
    ArgPart(nm.offset + LONG_DECLARATION_LENGTH, LONG_DECLARATION_LENGTH + Len(long))

\* name.offset += LONG_DECLARATION_LENGTH; name.length = long.len()
long_name(nm, long) == ArgPart(nm.offset + LONG_DECLARATION_LENGTH, Len(long))

\* History of a match: the token (and the character of a short cluster, counted
\* from 0 after the "-") that filled a slot, the id of the argument found, the
\* alias as typed, and the text counted as content (None when there is none).
Origin(token, index, id, alias, content) ==
    [token |-> token, index |-> index, id |-> id, alias |-> alias, content |-> content]

\* The token whose length peek_or_discrete counted, when it counted one.
Peeked(result, at) == IF result.kind = "Complete" THEN Some(args[at]) ELSE None

\* The head of the 'cursor loop: another token is read.
CursorContinues == resolved < Len(targets) /\ cursor <= Len(args)

\* The state of alias.rs's mapper while a locator is the one called.
AliasUnused ==
    /\ mapper = <<>>
    /\ returned = <<>>
    /\ called = <<>>
    /\ calls = <<>>
    /\ builds = <<>>

\* The state of lex.rs's locator while parse.rs's is the one called.
LexUnused ==
    /\ lex_arg = ""
    /\ offset = 0
    /\ length = 0
    /\ parsed_long = None
    /\ lex_location = None
    /\ lex_arg_aliases = None
    /\ include_arg_name = FALSE
    /\ force_lossy_os = FALSE
    /\ iter = 0

Init ==
    /\ command \in Commands
    /\ args \in SeqsUpTo(Tokens, MaxTokens)
    /\ targets \in SeqsUpTo(TargetIds(command), MaxTargets)
    /\ cursor = 1
    /\ name = ArgPart(0, 0)
    /\ declaration = ArgPart(0, 0)
    /\ shorts = <<>>
    /\ results = [i \in 1..Len(targets) |-> None]
    /\ resolved = 0
    /\ arg_aliases = None
    /\ pc = "cursor"
    /\ origin = [i \in 1..Len(targets) |-> None]
    /\ LexUnused
    /\ AliasUnused

\* The loop ends: every target counted as resolved, or no token left.
CursorExit ==
    /\ pc = "cursor"
    /\ ~CursorContinues
    /\ pc' = "done"
    /\ UNCHANGED <<command, args, targets, cursor, name, declaration, shorts,
                   results, resolved, arg_aliases, origin, lexVars, aliasVars>>

\* One iteration of 'cursor on a long option, --long or --long=value.
LongArg ==
    /\ pc = "cursor"
    /\ CursorContinues
    /\ IsSome(to_long(args[cursor]))
    /\ LET parsed == Unwrap(to_long(args[cursor]))
           long == parsed.long
           accompany == parsed.accompany
           got == get_arg_by_alias(arg_aliases, command, Long(long))
           found == Unwrap(got.found)
           target_pos == position(targets, get_id(found))
           matched == long_name(name, long)
           decl == ArgPart(matched.offset - LONG_DECLARATION_LENGTH,
                           LONG_DECLARATION_LENGTH)
           location ==
               IF IsSome(accompany)
               THEN new_complete(decl, matched, Len(Unwrap(accompany)))
               ELSE peek_or_discrete(found, decl, matched, cursor + 1)
       IN /\ cursor' = cursor + 1
          /\ arg_aliases' = got.cell
          /\ IF got.panicked
             THEN /\ pc' = "panic"
                  /\ UNCHANGED <<name, results, resolved, origin>>
             ELSE IF ~IsSome(got.found)
             THEN UNCHANGED <<pc, name, results, resolved, origin>>
             ELSE IF ~IsSome(target_pos)
             THEN /\ name' = [name EXCEPT !.offset =
                                 @ + LONG_DECLARATION_LENGTH + Len(long) + DELIMITER_LENGTH]
                  /\ UNCHANGED <<pc, results, resolved, origin>>
             ELSE /\ name' = matched
                  /\ results' = resolve(results, Unwrap(target_pos), location)
                  /\ resolved' = resolved + 1
                  /\ origin' = resolve(origin, Unwrap(target_pos),
                                       Origin(cursor, 0, get_id(found), Long(long),
                                              IF IsSome(accompany) THEN accompany
                                              ELSE Peeked(location, cursor + 1)))
                  /\ UNCHANGED pc
    /\ UNCHANGED <<command, args, targets, declaration, shorts, lexVars, aliasVars>>

\* One iteration of 'cursor on a short cluster: the walk of its characters begins.
ShortsArg ==
    /\ pc = "cursor"
    /\ CursorContinues
    /\ to_long(args[cursor]) = None
    /\ IsSome(to_short(args[cursor]))
    /\ cursor' = cursor + 1
    /\ declaration' = ArgPart(name.offset, SHORT_DECLARATION_LENGTH)
    /\ name' = [name EXCEPT !.offset = @ + SHORT_DECLARATION_LENGTH]
    /\ shorts' = Unwrap(to_short(args[cursor]))
    /\ pc' = "shorts"
    /\ UNCHANGED <<command, args, targets, results, resolved, arg_aliases, origin,
                   lexVars, aliasVars>>

\* One iteration of 'shorts: the next character of the cluster.
ShortFlag ==
    /\ pc = "shorts"
    /\ shorts # <<>>
    /\ LET short == Head(shorts)
           rest == Tail(shorts)
           got == get_arg_by_alias(arg_aliases, command, Short(short))
           found == Unwrap(got.found)
           target_pos == position(targets, get_id(found))
           here == ArgPart(name.offset, SHORT_LENGTH)
           remain == next_value_os(rest)
           valued ==
               IF IsSome(remain)
               THEN IF StartsWith(Unwrap(remain), <<"=">>)
                    THEN new_complete(declaration, here, Len(Unwrap(remain)) - 1)
                    ELSE Stuck(declaration, here,
                               ArgPart(name.offset + 1, Len(Unwrap(remain))))
               ELSE peek_or_discrete(found, declaration, here, cursor)
           token == cursor - 1
           index == Len(args[token]) - 1 - Len(shorts)
       IN /\ arg_aliases' = got.cell
          /\ IF got.panicked
             THEN /\ pc' = "panic"
                  /\ shorts' = rest
                  /\ UNCHANGED <<name, results, resolved, origin>>
             ELSE IF ~IsSome(got.found)
             THEN /\ shorts' = rest
                  /\ UNCHANGED <<pc, name, results, resolved, origin>>
             ELSE IF is_arg_discrete(found)
             THEN /\ shorts' = rest
                  /\ IF ~IsSome(target_pos)
                     THEN /\ name' = [name EXCEPT !.offset = @ + SHORT_LENGTH]
                          /\ UNCHANGED <<pc, results, resolved, origin>>
                     ELSE /\ results' = resolve(results, Unwrap(target_pos),
                                                Discrete(declaration, here))
                          /\ resolved' = resolved + 1
                          /\ origin' = resolve(origin, Unwrap(target_pos),
                                               Origin(token, index, get_id(found),
                                                      Short(short), None))
                          /\ UNCHANGED <<pc, name>>
             ELSE /\ shorts' = after_next_value_os(rest)
                  /\ IF ~IsSome(target_pos)
                     THEN /\ name' = [name EXCEPT !.offset =
                                         @ + SHORT_LENGTH + Len(unwrap_or_default(remain))
                                           + DELIMITER_LENGTH]
                          /\ pc' = "cursor"
                          /\ UNCHANGED <<results, resolved, origin>>
                     ELSE /\ results' = resolve(results, Unwrap(target_pos), valued)
                          /\ resolved' = resolved + 1
                          /\ origin' = resolve(origin, Unwrap(target_pos),
                                  Origin(token, index, get_id(found), Short(short),
                                         IF ~IsSome(remain) THEN Peeked(valued, cursor)
                                         ELSE IF StartsWith(Unwrap(remain), <<"=">>)
                                         THEN Some(Tail(Unwrap(remain)))
                                         ELSE remain))
                          /\ UNCHANGED <<pc, name>>
    /\ UNCHANGED <<command, args, targets, cursor, declaration, lexVars, aliasVars>>

\* 'shorts ends: all characters of the cluster have been read.
ShortsEnd ==
    /\ pc = "shorts"
    /\ shorts = <<>>
    /\ pc' = "cursor"
    /\ UNCHANGED <<command, args, targets, cursor, name, declaration, shorts,
                   results, resolved, arg_aliases, origin, lexVars, aliasVars>>

\* One iteration of 'cursor on a token that is neither: a value.
ValueArg ==
    /\ pc = "cursor"
    /\ CursorContinues
    /\ to_long(args[cursor]) = None
    /\ to_short(args[cursor]) = None
    /\ cursor' = cursor + 1
    /\ name' = [name EXCEPT !.offset =
                   @ + Len(to_value_os(args[cursor])) + DELIMITER_LENGTH]
    /\ UNCHANGED <<command, args, targets, declaration, shorts, results, resolved,
                   arg_aliases, pc, origin, lexVars, aliasVars>>

Next == CursorExit \/ LongArg \/ ShortsArg \/ ShortFlag \/ ShortsEnd \/ ValueArg

Spec == Init /\ [][Next]_vars

-----------------------------------------------------------------------------
(* lex.rs: ArgLocator::get_arg_aliases and ArgLocator::get_location *)

\* BTreeMap::insert
insert(map, key, value) ==
    [k \in (DOMAIN map) \cup {key} |-> IF k = key THEN value ELSE map[k]]

\* BTreeMap::get
get(map, key) == IF key \in DOMAIN map THEN Some(map[key]) ELSE None

RECURSIVE InsertLongs(_, _, _)
InsertLongs(map, longs, a) ==
    IF longs = <<>> THEN map
    ELSE InsertLongs(insert(map, Long(Head(longs)), a), Tail(longs), a)

RECURSIVE InsertShorts(_, _, _)
InsertShorts(map, chars, a) ==
    IF chars = <<>> THEN map
    ELSE InsertShorts(insert(map, Short(Head(chars)), a), Tail(chars), a)

\* The body of the loop over the arguments: the aliases chained with the
\* canonical name, inside `if let Some(..) = get_all_aliases()`, longs then shorts.
InsertArg(map, a) ==
    LET with_longs ==
            IF IsSome(get_all_aliases(a))
            THEN InsertLongs(map, Unwrap(get_all_aliases(a)) \o get_long(a), a)
            ELSE map
    IN IF IsSome(get_all_short_aliases(a))
       THEN InsertShorts(with_longs, Unwrap(get_all_short_aliases(a)) \o get_short(a), a)
       ELSE with_longs

RECURSIVE InsertArgs(_, _)
InsertArgs(map, arguments) ==
    IF arguments = <<>> THEN map
    ELSE InsertArgs(InsertArg(map, Head(arguments)), Tail(arguments))

\* get_arg_aliases: the cell after get_or_init.
get_arg_aliases(cell, cmd) ==
    IF IsSome(cell) THEN cell ELSE Some(InsertArgs(<<>>, get_arguments(cmd)))

\* get_value_os_length: the lossy conversion of valid UTF-8 is the text itself.
get_value_os_length(lossy, value) == IF lossy THEN Len(value) ELSE Len(value)

\* The state of parse.rs's locator while lex.rs's is the one called.
ParseUnused ==
    /\ targets = <<>>
    /\ name = ArgPart(0, 0)
    /\ declaration = ArgPart(0, 0)
    /\ results = <<>>
    /\ resolved = 0
    /\ arg_aliases = None
    /\ origin = <<>>

InitLex ==
    /\ command \in Commands
    /\ args \in SeqsUpTo(Tokens, MaxTokens)
    /\ lex_arg \in TargetIds(command)
    /\ include_arg_name \in BOOLEAN
    /\ force_lossy_os \in BOOLEAN
    /\ cursor = 1
    /\ offset = 0
    /\ length = 0
    /\ parsed_long = None
    /\ shorts = <<>>
    /\ lex_location = None
    /\ lex_arg_aliases = None
    /\ iter = 0
    /\ pc = "start"
    /\ ParseUnused
    /\ AliasUnused

\* let arg_aliases = self.get_arg_aliases::<T>()
LexStart ==
    /\ pc = "start"
    /\ lex_arg_aliases' = get_arg_aliases(lex_arg_aliases, command)
    /\ pc' = "cursor"
    /\ UNCHANGED <<command, args, cursor, shorts, parseVars, aliasVars, lex_arg, offset, length,
                   parsed_long, lex_location, include_arg_name, force_lossy_os, iter>>

\* raw.next is None: the argument never appeared.
LexExit ==
    /\ pc = "cursor"
    /\ cursor > Len(args)
    /\ lex_location' = None
    /\ pc' = "done"
    /\ UNCHANGED <<command, args, cursor, shorts, parseVars, aliasVars, lex_arg, offset, length,
                   parsed_long, lex_arg_aliases, include_arg_name, force_lossy_os, iter>>

\* A long option: looked up with expect; skipped when it is another argument's,
\* else its inline value is counted and the peek loop begins.
LexLongArg ==
    /\ pc = "cursor"
    /\ cursor <= Len(args)
    /\ IsSome(to_long(args[cursor]))
    /\ LET parsed == Unwrap(to_long(args[cursor]))
           found == get(Unwrap(lex_arg_aliases), Long(parsed.long))
       IN /\ cursor' = cursor + 1
          /\ IF ~IsSome(found)
             THEN /\ pc' = "panic"
                  /\ UNCHANGED <<offset, length, parsed_long>>
             ELSE IF get_id(Unwrap(found)) # lex_arg
             THEN /\ offset' = offset + Len(parsed.long) + 1
                  /\ UNCHANGED <<pc, length, parsed_long>>
             ELSE /\ length' = IF IsSome(parsed.accompany)
                               THEN get_value_os_length(force_lossy_os,
                                                        Unwrap(parsed.accompany))
                               ELSE 0
                  /\ parsed_long' = Some(parsed)
                  /\ pc' = "peek"
                  /\ UNCHANGED offset
    /\ UNCHANGED <<command, args, shorts, parseVars, aliasVars, lex_arg, lex_location,
                   lex_arg_aliases, include_arg_name, force_lossy_os, iter>>

\* One iteration of `while let Some(peek) = raw.peek(..)`: a value is counted and
\* consumed; any other token is left where it is.
LexPeek ==
    /\ pc = "peek"
    /\ IsSome(peek(args, cursor))
    /\ LET next == Unwrap(peek(args, cursor))
       IN IF to_long(next) = None /\ to_short(next) = None
          THEN /\ length' = length
                            + get_value_os_length(force_lossy_os, to_value_os(next)) + 1
               /\ cursor' = cursor + 1
          ELSE UNCHANGED <<length, cursor>>
    /\ iter' = 1 - iter
    /\ UNCHANGED <<command, args, shorts, pc, parseVars, aliasVars, lex_arg, offset, parsed_long,
                   lex_location, lex_arg_aliases, include_arg_name, force_lossy_os>>

\* The peek loop ends on raw.peek being None; the location is returned.
LexLongReturn ==
    /\ pc = "peek"
    /\ ~IsSome(peek(args, cursor))
    /\ LET long == Unwrap(parsed_long).long
           accompany == Unwrap(parsed_long).accompany
           content_only == ~include_arg_name /\ length # 0
           at == IF content_only
                 THEN IF IsSome(accompany) THEN offset + Len(long) - 1
                      ELSE offset + Len(long)
                 ELSE offset
           len == IF content_only THEN length ELSE length + Len(long)
       IN /\ offset' = at
          /\ length' = len
          /\ lex_location' = Some(<<at, len>>)
    /\ pc' = "done"
    /\ UNCHANGED <<command, args, cursor, shorts, parseVars, aliasVars, lex_arg, parsed_long,
                   lex_arg_aliases, include_arg_name, force_lossy_os, iter>>

\* A short cluster: the walk of its characters begins.
LexShortsArg ==
    /\ pc = "cursor"
    /\ cursor <= Len(args)
    /\ to_long(args[cursor]) = None
    /\ IsSome(to_short(args[cursor]))
    /\ cursor' = cursor + 1
    /\ shorts' = Unwrap(to_short(args[cursor]))
    /\ pc' = "shorts"
    /\ UNCHANGED <<command, args, parseVars, lexVars, aliasVars>>

\* One iteration of `while let Some(short_os) = shorts.next_flag()`.
LexShortFlag ==
    /\ pc = "shorts"
    /\ shorts # <<>>
    /\ LET short == Head(shorts)
           rest == Tail(shorts)
           found == get(Unwrap(lex_arg_aliases), Short(short))
           value == unwrap_or_default(next_value_os(rest))
           len == get_value_os_length(force_lossy_os, value)
       IN IF ~IsSome(found)
          THEN /\ pc' = "panic"
               /\ shorts' = rest
               /\ UNCHANGED <<offset, lex_location>>
          ELSE IF Unwrap(found).bool_values
          THEN /\ offset' = offset + 1
               /\ shorts' = rest
               /\ IF get_id(Unwrap(found)) = lex_arg
                  THEN /\ lex_location' = Some(<<offset + 1, 1>>)
                       /\ pc' = "done"
                  ELSE UNCHANGED <<pc, lex_location>>
          ELSE /\ shorts' = <<>>
               /\ IF get_id(Unwrap(found)) # lex_arg
                  THEN /\ offset' = offset + 1 + len + 1
                       /\ pc' = "cursor"
                       /\ UNCHANGED lex_location
                  ELSE IF ~include_arg_name /\ len # 0
                  THEN /\ offset' = IF StartsWith(value, <<"=">>)
                                    THEN offset + 1 + 1 ELSE offset + 1
                       /\ lex_location' = Some(<<offset', len>>)
                       /\ pc' = "done"
                  ELSE /\ offset' = offset + 1
                       /\ UNCHANGED <<pc, lex_location>>
    /\ UNCHANGED <<command, args, cursor, parseVars, aliasVars, lex_arg, length, parsed_long,
                   lex_arg_aliases, include_arg_name, force_lossy_os, iter>>

\* The cluster has no character left.
LexShortsEnd ==
    /\ pc = "shorts"
    /\ shorts = <<>>
    /\ pc' = "cursor"
    /\ UNCHANGED <<command, args, cursor, shorts, parseVars, lexVars, aliasVars>>

\* Any other token: a value.
LexValueArg ==
    /\ pc = "cursor"
    /\ cursor <= Len(args)
    /\ to_long(args[cursor]) = None
    /\ to_short(args[cursor]) = None
    /\ cursor' = cursor + 1
    /\ offset' = offset + get_value_os_length(force_lossy_os, to_value_os(args[cursor])) + 1
    /\ UNCHANGED <<command, args, shorts, pc, parseVars, aliasVars, lex_arg, length, parsed_long,
                   lex_location, lex_arg_aliases, include_arg_name, force_lossy_os, iter>>

NextLex ==
    \/ LexStart \/ LexExit \/ LexLongArg \/ LexPeek \/ LexLongReturn
    \/ LexShortsArg \/ LexShortFlag \/ LexShortsEnd \/ LexValueArg

SpecLex == InitLex /\ [][NextLex]_vars

\* The call runs to its end: a step that can be taken is taken.
SpecLexFair == SpecLex /\ WF_vars(NextLex)

-----------------------------------------------------------------------------
(* alias.rs: ClapAliasesMapper::get_arg and ClapAliasesMapper::get_derived_mapper *)

Ok(x) == [kind |-> "Ok", value |-> x]
Err(e) == [kind |-> "Err", value |-> e]

\* clap::Command as alias.rs reads it: its own name and aliases, its arguments
\* and its subcommands.
Command(nm, aliases, arguments, subcommands) ==
    [name |-> nm, aliases |-> aliases, arguments |-> arguments,
     subcommands |-> subcommands]

\* An application with three subcommands:
\*   scan  alias s       mv  alias m       undo  aliases u, un
ScanCommand == Command(<<"s", "c", "a", "n">>, << <<"s">> >>, PositionalCommand, <<>>)
MvCommand == Command(<<"m", "v">>, << <<"m">> >>, PositionalCommand, <<>>)
UndoCommand == Command(<<"u", "n", "d", "o">>, << <<"u">>, <<"u", "n">> >>, MainCommand, <<>>)
AppCommand ==
    Command(<<"a">>, <<>>, MainCommand, <<ScanCommand, MvCommand, UndoCommand>>)

\* The commands a mapper is made of: one with subcommands, one without.
MapperCommands == {AppCommand, MvCommand}

get_subcommands(cmd) == cmd.subcommands
\* clap Command::get_all_aliases: the aliases of the command, its name not among them.
command_get_all_aliases(cmd) == cmd.aliases

\* ClapAliasesMapper::new
new(cmd) == [command |-> cmd, arg_aliases |-> None, command_aliases |-> None]

borrow_command(self) == self.command

\* The aliases looked up: every declared one and some that no argument declares.
AliasUniverse ==
    {Long(t) : t \in {<<"d", "i", "s">>, <<"d">>, <<"c", "o", "m">>, <<"x">>,
                      <<"s">>, <<"c">>, <<"u", "n">>}}
    \cup {Short(c) : c \in {"d", "x", "s", "c", "u"}}

\* The subcommand aliases looked up: the aliases and names of the subcommands,
\* and one that no subcommand declares.
CommandAliasUniverse ==
    { <<"s">>, <<"m">>, <<"u">>, <<"u", "n">>, <<"s", "c", "a", "n">>, <<"m", "v">>,
      <<"u", "n", "d", "o">>, <<"x">> }

\* get_arg as it would be if it kept no list and built one on every call.
get_arg_rebuilds(self, alias) ==
    LET inner == sort_unstable_by(CollectAliases(get_arguments(borrow_command(self).arguments)))
        index == binary_search_by(inner, alias, 0, Len(inner))
    IN [self |-> self,
        result |-> IF IsSome(index) THEN Ok(inner[Unwrap(index)].arg)
                   ELSE Err("Unknown alias")]

\* get_arg: the mapper after the call (its arg_aliases initialised) and the result.
get_arg(self, alias) ==
    LET inner == IF IsSome(self.arg_aliases) THEN Unwrap(self.arg_aliases)
                 ELSE sort_unstable_by(
                          CollectAliases(get_arguments(borrow_command(self).arguments)))
        index == binary_search_by(inner, alias, 0, Len(inner))
    IN [self |-> [self EXCEPT !.arg_aliases = Some(inner)],
        result |-> IF IsSome(index) THEN Ok(inner[Unwrap(index)].arg)
                   ELSE Err("Unknown alias")]

\* for alias in subcommand.get_all_aliases() { aliases.push((alias, index)) }
RECURSIVE CommandEntries(_, _)
CommandEntries(aliases, index) ==
    IF aliases = <<>> THEN <<>>
    ELSE <<[alias |-> Head(aliases), index |-> index]>>
         \o CommandEntries(Tail(aliases), index)

\* for (index, subcommand) in command.get_subcommands().enumerate(), from `index` on.
RECURSIVE CollectCommandAliases(_, _)
CollectCommandAliases(subcommands, index) ==
    IF subcommands = <<>> THEN <<>>
    ELSE CommandEntries(command_get_all_aliases(Head(subcommands)), index)
         \o CollectCommandAliases(Tail(subcommands), index + 1)

\* Insertion of one entry into a sequence sorted by the alias, a String.
RECURSIVE InsertSortedCommand(_, _)
InsertSortedCommand(e, sorted) ==
    IF sorted = <<>> THEN <<e>>
    ELSE IF StrLess(e.alias, Head(sorted).alias) THEN <<e>> \o sorted
    ELSE <<Head(sorted)>> \o InsertSortedCommand(e, Tail(sorted))

\* aliases.sort_unstable_by(|(a, _), (b, _)| a.cmp(b)) of get_derived_mapper
RECURSIVE sort_command_aliases(_)
sort_command_aliases(v) ==
    IF v = <<>> THEN <<>>
    ELSE InsertSortedCommand(Head(v), sort_command_aliases(Tail(v)))

\* inner.binary_search_by(|(k, _)| alias.partial_cmp(k).expect(..).reverse())
RECURSIVE binary_search_command(_, _, _, _)
binary_search_command(v, alias, lo, hi) ==
    IF lo >= hi THEN None
    ELSE LET mid == lo + ((hi - lo) \div 2)
             k == v[mid + 1].alias
         IN IF k = alias THEN Some(mid + 1)
            ELSE IF StrLess(k, alias) THEN binary_search_command(v, alias, mid + 1, hi)
            ELSE binary_search_command(v, alias, lo, mid)

\* Iterator::take(n) of the subcommands, then next(): the first of the first n.
take_next(subcommands, n) ==
    LET taken == SubSeq(subcommands, 1, IF n < Len(subcommands) THEN n ELSE Len(subcommands))
    IN IF taken = <<>> THEN None ELSE Some(Head(taken))

\* get_derived_mapper: the mapper after the call (its command_aliases initialised),
\* whether unwrap panicked, and the result.
get_derived_mapper(self, alias) ==
    LET inner == IF IsSome(self.command_aliases) THEN Unwrap(self.command_aliases)
                 ELSE sort_command_aliases(
                          CollectCommandAliases(get_subcommands(borrow_command(self)), 0))
        index == binary_search_command(inner, alias, 0, Len(inner))
        cmd == IF IsSome(index)
               THEN take_next(get_subcommands(borrow_command(self)),
                              inner[Unwrap(index)].index)
               ELSE None
    IN [self |-> [self EXCEPT !.command_aliases = Some(inner)],
        panicked |-> IsSome(index) /\ ~IsSome(cmd),
        result |-> IF ~IsSome(index) THEN Err("Unknown alias")
                   ELSE IF IsSome(cmd) THEN Ok(new(Unwrap(cmd)))
                   ELSE Err("panicked")]

\* The number of calls a mapper and a locator are followed through.
MaxCalls == 3

TotalCalls == calls.get_arg + calls.get_derived_mapper + calls.get_arg_by_alias

InitAlias ==
    /\ command \in Commands
    /\ mapper \in {new(cmd) : cmd \in MapperCommands}
    /\ returned = [kind |-> "", value |-> <<>>]
    /\ called = [fn |-> "", alias |-> <<>>]
    /\ calls = [get_arg |-> 0, get_derived_mapper |-> 0, get_arg_by_alias |-> 0]
    /\ builds = [arg_aliases |-> 0, command_aliases |-> 0, locator |-> 0]
    /\ args = <<>>
    /\ cursor = 1
    /\ shorts = <<>>
    /\ pc = "ready"
    /\ ParseUnused
    /\ LexUnused

\* mapper.get_arg(&alias)
GetArg ==
    /\ pc = "ready"
    /\ TotalCalls < MaxCalls
    /\ \E alias \in AliasUniverse :
           LET got == get_arg(mapper, alias)
           IN /\ mapper' = got.self
              /\ returned' = got.result
              /\ called' = [fn |-> "get_arg", alias |-> alias]
              /\ builds' = [builds EXCEPT !.arg_aliases =
                                @ + (IF IsSome(mapper.arg_aliases) THEN 0 ELSE 1)]
    /\ calls' = [calls EXCEPT !.get_arg = @ + 1]
    /\ UNCHANGED <<command, args, cursor, shorts, pc, parseVars, lexVars>>

\* mapper.get_derived_mapper(&alias)
GetDerivedMapper ==
    /\ pc = "ready"
    /\ TotalCalls < MaxCalls
    /\ \E alias \in CommandAliasUniverse :
           LET got == get_derived_mapper(mapper, alias)
           IN /\ mapper' = got.self
              /\ returned' = got.result
              /\ pc' = IF got.panicked THEN "panic" ELSE pc
              /\ called' = [fn |-> "get_derived_mapper", alias |-> alias]
              /\ builds' = [builds EXCEPT !.command_aliases =
                                @ + (IF IsSome(mapper.command_aliases) THEN 0 ELSE 1)]
    /\ calls' = [calls EXCEPT !.get_derived_mapper = @ + 1]
    /\ UNCHANGED <<command, args, cursor, shorts, parseVars, lexVars>>

\* (locator.get_arg_by_alias)(&locator, &locator.arg_aliases, &alias), the
\* locator being ArgLocator::from_command_factory's.
GetArgByAlias ==
    /\ pc = "ready"
    /\ TotalCalls < MaxCalls
    /\ \E alias \in AliasUniverse :
           LET got == get_arg_by_alias(arg_aliases, command, alias)
           IN /\ arg_aliases' = got.cell
              /\ returned' = IF got.panicked THEN Err("panicked")
                             ELSE IF IsSome(got.found)
                             THEN [kind |-> "Some", value |-> Unwrap(got.found)]
                             ELSE [kind |-> "None", value |-> <<>>]
              /\ pc' = IF got.panicked THEN "panic" ELSE pc
              /\ called' = [fn |-> "get_arg_by_alias", alias |-> alias]
              /\ builds' = [builds EXCEPT !.locator =
                                @ + (IF IsSome(arg_aliases) THEN 0 ELSE 1)]
    /\ calls' = [calls EXCEPT !.get_arg_by_alias = @ + 1]
    /\ UNCHANGED <<command, args, cursor, shorts, targets, name, declaration, results,
                   resolved, origin, lexVars, mapper>>

NextAlias == GetArg \/ GetDerivedMapper \/ GetArgByAlias

SpecAlias == InitAlias /\ [][NextAlias]_vars

-----------------------------------------------------------------------------
(* What the command declares, read off its arguments *)

Range(q) == {q[i] : i \in 1..Len(q)}

\* Every alias an argument declares: canonical names and aliases, long and short.
DeclaredAliases(a) ==
    {Long(t) : t \in Range(a.long) \cup Range(a.aliases)}
    \cup {Short(c) : c \in Range(a.short) \cup Range(a.short_aliases)}

Declared(cmd, alias) == \E i \in 1..Len(cmd) : alias \in DeclaredAliases(cmd[i])

DeclaringArg(cmd, alias) ==
    cmd[CHOOSE i \in 1..Len(cmd) : alias \in DeclaredAliases(cmd[i])]

HasAliases(cmd) == \E i \in 1..Len(cmd) : DeclaredAliases(cmd[i]) # {}

ArgById(cmd, id) == cmd[CHOOSE i \in 1..Len(cmd) : cmd[i].id = id]

Filled == {i \in 1..Len(results) : IsSome(results[i])}

\* The part lies inside the Argv string and covers exactly `text`.
PartIs(part, text) ==
    /\ part.offset + part.length <= Len(Flatten(args))
    /\ Slice(Flatten(args), part) = text

\* What follows character `index` of the short cluster that is token `token`.
ShortRemainder(token, index) == SubSeq(args[token], index + 3, Len(args[token]))

-----------------------------------------------------------------------------
(* Claims about get_locations (specification Spec) *)

\* C1: every ArgPart of every location returned covers, in the Argv string, exactly
\* the text of its role: the "-" or "--" marker for declaration, the alias as typed
\* for name, "=" or the separator for delimiter, the value text for content.
C1_OffsetContract ==
    \A i \in Filled :
        LET loc == Unwrap(results[i])
            o == Unwrap(origin[i])
        IN /\ PartIs(loc.declaration,
                     IF o.alias.kind = "Long" THEN <<"-", "-">> ELSE <<"-">>)
           /\ PartIs(loc.name, o.alias.text)
           /\ (loc.kind = "Complete" =>
                  /\ PartIs(loc.delimiter, <<"=">>) \/ PartIs(loc.delimiter, <<" ">>)
                  /\ PartIs(loc.content, Unwrap(o.content)))
           /\ (loc.kind = "Stuck" => PartIs(loc.content, Unwrap(o.content)))

\* C3: the result holds at most one entry for each requested target, however many
\* times the target's aliases occur in the tokens.
C3_AtMostOnePerTarget ==
    \A t \in TargetIds(command) :
        Cardinality({i \in Filled : Unwrap(origin[i]).id = t}) <= 1

\* A call that has ended after matching twice, with a single entry to show for it.
C3_Witness == pc = "done" /\ resolved >= 2 /\ Cardinality(Filled) = 1

\* The occurrence a is not after the occurrence b in the tokens.
NotAfter(a, b) == a.token < b.token \/ (a.token = b.token /\ a.index <= b.index)

\* C4 as stated: the entries are ordered by the position of each target's
\* occurrence in the tokens, whatever the order the targets were passed in.
C4_FirstOccurrenceOrder ==
    \A i, j \in Filled : i < j => NotAfter(Unwrap(origin[i]), Unwrap(origin[j]))

\* C4 as amended: the entries are in the order the targets were passed in: there
\* is one slot per target, and a filled slot i holds a location of targets[i].
C4_OrderOfTargets ==
    /\ Len(results) = Len(targets)
    /\ \A i \in Filled : Unwrap(origin[i]).id = targets[i]

\* Two targets located, the one passed first occurring later in the tokens.
C4_Witness ==
    /\ pc = "done"
    /\ \E i, j \in Filled :
           i < j /\ Unwrap(origin[j]).token < Unwrap(origin[i]).token

\* The token read by the step about to happen is a long option whose alias no
\* argument declares; the character about to be read is such a short alias.
UnresolvedLongStep ==
    /\ pc = "cursor" /\ CursorContinues
    /\ IsSome(to_long(args[cursor]))
    /\ ~Declared(command, Long(Unwrap(to_long(args[cursor])).long))

UnresolvedShortStep ==
    pc = "shorts" /\ shorts # <<>> /\ ~Declared(command, Short(Head(shorts)))

\* Token k is a long option, or a short cluster beginning with a character, that
\* no argument declares.
UnresolvedToken(k) ==
    IF IsSome(to_long(args[k]))
    THEN ~Declared(command, Long(Unwrap(to_long(args[k])).long))
    ELSE /\ IsSome(to_short(args[k]))
         /\ ~Declared(command, Short(Head(Unwrap(to_short(args[k])))))

\* The scan has looked up the alias of token k (for a cluster, of its first character).
LookedUp(k) ==
    /\ k < cursor
    /\ (IsSome(to_long(args[k])) \/ k < cursor - 1 \/ pc # "shorts"
        \/ Len(shorts) < Len(args[k]) - 1)

C8_NameIsAliasTyped ==
    \A i \in Filled :
        LET o == Unwrap(origin[i])
            typed == Unwrap(to_long(args[o.token])).long
        IN o.alias.kind = "Long" =>
               /\ Unwrap(results[i]).name.length = Len(typed)
               /\ targets[i] = DeclaringArg(command, Long(typed)).id

\* A location found through --d, the long alias of the argument whose name is dis.
C8_Witness ==
    \E i \in Filled :
        /\ Unwrap(origin[i]).alias = Long(<<"d">>)
        /\ targets[i] = "discrete"
        /\ Unwrap(results[i]).name.length = 1

\* C9: a targeted value-taking short character followed, in its cluster, by a
\* remainder that begins with "=" yields Complete, with declaration at the start
\* of the cluster, name at the character, the delimiter next and then the content.
C9_ShortEqualsComplete ==
    \A i \in Filled :
        LET o == Unwrap(origin[i])
            loc == Unwrap(results[i])
            rem == ShortRemainder(o.token, o.index)
            p == TokenStart(args, o.token)
        IN (/\ o.alias.kind = "Short"
            /\ ~is_arg_discrete(ArgById(command, o.id))
            /\ rem # <<>> /\ Head(rem) = "=") =>
               /\ loc.kind = "Complete"
               /\ loc.declaration = ArgPart(p, 1)
               /\ loc.name = ArgPart(p + 1 + o.index, 1)
               /\ loc.delimiter = ArgPart(loc.name.offset + 1, 1)
               /\ loc.content = ArgPart(loc.name.offset + 2, Len(rem) - 1)

\* C10: a targeted value-taking short character at index i of a cluster that
\* starts at byte p, followed by a remainder that does not begin with "=", yields
\* Stuck with declaration (p, 1), name (p + 1 + i, 1) and content (p + 2 + i, the
\* length of the remainder).
C10_StuckLayout ==
    \A i \in Filled :
        LET o == Unwrap(origin[i])
            loc == Unwrap(results[i])
            rem == ShortRemainder(o.token, o.index)
            p == TokenStart(args, o.token)
        IN (/\ o.alias.kind = "Short"
            /\ ~is_arg_discrete(ArgById(command, o.id))
            /\ rem # <<>> /\ Head(rem) # "=") =>
               /\ loc.kind = "Stuck"
               /\ loc.declaration = ArgPart(p, 1)
               /\ loc.name = ArgPart(p + 1 + o.index, 1)
               /\ loc.content = ArgPart(p + 2 + o.index, Len(rem))

\* The match that filled a slot had no value of its own in its token: a long
\* option without "=value", a short character at the end of its cluster.
NoInlineValue(o) ==
    IF o.alias.kind = "Long" THEN Unwrap(to_long(args[o.token])).accompany = None
    ELSE ShortRemainder(o.token, o.index) = <<>>

\* Token k is value-shaped: neither a long option nor a short cluster.
ValueShaped(k) == to_long(args[k]) = None /\ to_short(args[k]) = None

\* C11: a targeted value-taking option with no inline or stuck value takes the
\* following token as its content (Complete, the delimiter being the separator
\* byte before that token, the content as long as the token) if and only if there
\* is a following token and it is value-shaped or the argument allows hyphen
\* values; otherwise the location is Discrete.
C11_FollowingTokenRule ==
    \A i \in Filled :
        LET o == Unwrap(origin[i])
            loc == Unwrap(results[i])
            arg == ArgById(command, o.id)
            k == o.token + 1
        IN (~is_arg_discrete(arg) /\ NoInlineValue(o)) =>
               IF k <= Len(args) /\ (is_allow_hyphen_values_set(arg) \/ ValueShaped(k))
               THEN /\ loc.kind = "Complete"
                    /\ loc.delimiter = ArgPart(TokenStart(args, k) - 1, 1)
                    /\ loc.content.length = Len(args[k])
               ELSE loc.kind = "Discrete"

\* C13: when a token starts being processed, the running byte cursor
\* (name.offset) is the sum of the lengths of the earlier tokens plus one separator
\* byte for each of them, whatever those tokens were.
C13_CursorInvariant ==
    (pc = "cursor" /\ CursorContinues) => name.offset = TokenStart(args, cursor)

\* Some slot holds a location of the target `id`.
Located(id) == \E i \in Filled : Unwrap(origin[i]).id = id

\* C14: the scan stops only when every requested target has its entry or the
\* tokens are exhausted; while a target is still unresolved and tokens remain it
\* goes on, even if another target has occurred several times.
C14_StopsOnlyWhenAllResolved ==
    pc = "done" => (cursor > Len(args) \/ \A t \in Range(targets) : Located(t))

\* The arity of an argument: num_args, 1 when it is unset.
Arity(arg) == IF IsSome(arg.num_args) THEN Unwrap(arg.num_args) ELSE 1

\* The number of tokens from token k on that an argument of arity n takes as its
\* content: eligible ones (value-shaped, or any when hyphen values are allowed).
RECURSIVE Consumed(_, _, _)
Consumed(arg, k, n) ==
    IF n = 0 \/ k > Len(args) THEN 0
    ELSE IF ~(is_allow_hyphen_values_set(arg) \/ ValueShaped(k)) THEN 0
    ELSE 1 + Consumed(arg, k + 1, n - 1)

\* The length of m tokens from token k on, joined by one separator byte.
RECURSIVE JoinedLength(_, _)
JoinedLength(k, m) ==
    IF m = 0 THEN 0
    ELSE IF m = 1 THEN Len(args[k])
    ELSE Len(args[k]) + 1 + JoinedLength(k + 1, m - 1)

\* C15: for a matched option without inline value, the arity of the argument sets
\* how many following tokens are its content: none for arity zero, which is then
\* Discrete even before a value-shaped token, N eligible ones for arity N; the
\* content is as long as the tokens taken, joined by one separator byte.
C15_ArityRule ==
    \A i \in Filled :
        LET o == Unwrap(origin[i])
            loc == Unwrap(results[i])
            arg == ArgById(command, o.id)
            m == Consumed(arg, o.token + 1, Arity(arg))
        IN NoInlineValue(o) =>
               IF m = 0 THEN loc.kind = "Discrete"
               ELSE /\ loc.kind = "Complete"
                    /\ loc.content.length = JoinedLength(o.token + 1, m)

\* The character is the short alias of an argument that takes a value.
ValueTakingChar(c) ==
    /\ Declared(command, Short(c))
    /\ ~is_arg_discrete(DeclaringArg(command, Short(c)))

\* C16: in a short cluster the first value-taking character ends the walk of the
\* characters: no character after it is looked up, and none yields a location,
\* whether or not the value-taking character is a target.
C16_ValueEndsCluster ==
    /\ \A i \in Filled :
           LET o == Unwrap(origin[i])
           IN o.alias.kind = "Short" =>
                  \A m \in 0..(o.index - 1) : ~ValueTakingChar(args[o.token][m + 2])
    /\ (pc = "shorts" /\ shorts # <<>>) =>
           LET cluster == Unwrap(to_short(args[cursor - 1]))
           IN \A m \in 1..(Len(cluster) - Len(shorts)) : ~ValueTakingChar(cluster[m])

\* The call has ended on -ds-d with discrete and stuck requested: s took -d as its
\* value, and discrete is located at the first d, not at the one after s.
C16_Witness ==
    /\ pc = "done"
    /\ args = << <<"-", "d", "s", "-", "d">> >>
    /\ \E i, j \in Filled :
           /\ Unwrap(origin[i]).id = "stuck" /\ Unwrap(origin[i]).index = 1
           /\ Unwrap(origin[i]).content = Some(<<"-", "d">>)
           /\ Unwrap(origin[j]).id = "discrete" /\ Unwrap(origin[j]).index = 0

\* C18: the location returned for a target describes its earliest occurrence: once
\* a slot is filled, a later occurrence of the target never overwrites it.
C18_NeverOverwritten ==
    [][ \A i \in 1..Len(results) : IsSome(results[i]) => results'[i] = results[i] ]_vars

\* C19: a token counted as the content of a matched option is value text only:
\* it yields no location for any target.
C19_ContentNotResolved ==
    \A i \in Filled :
        LET o == Unwrap(origin[i])
        IN (Unwrap(results[i]).kind = "Complete" /\ NoInlineValue(o)) =>
               \A j \in Filled : Unwrap(origin[j]).token # o.token + 1

-----------------------------------------------------------------------------
(* Claims about lex.rs's get_location and get_arg_aliases (specification SpecLex) *)

\* C2: the scan terminates on every command and every token sequence, also when
\* a matched long option without inline value is followed by an option-shaped
\* token: every call reaches its end.
C2_ScanTerminates == <>(pc = "done" \/ pc = "panic")

\* The aliases of argument `id` occur nowhere in the tokens as an option: no long
\* option names it and no short cluster holds one of its characters.
Absent(id) ==
    \A k \in 1..Len(args) :
        LET own == DeclaredAliases(ArgById(command, id))
        IN /\ IsSome(to_long(args[k])) =>
                  Long(Unwrap(to_long(args[k])).long) \notin own
           /\ (to_long(args[k]) = None /\ IsSome(to_short(args[k]))) =>
                  \A c \in Range(Unwrap(to_short(args[k]))) : Short(c) \notin own

\* Every long option of the tokens, and every character of their short clusters
\* up to the first that takes a value, is an alias the command declares.
OnlyDeclaredAliases ==
    \A k \in 1..Len(args) :
        /\ IsSome(to_long(args[k])) =>
               Declared(command, Long(Unwrap(to_long(args[k])).long))
        /\ (to_long(args[k]) = None /\ IsSome(to_short(args[k]))) =>
               LET cluster == Unwrap(to_short(args[k]))
               IN \A n \in 1..Len(cluster) :
                      \/ Declared(command, Short(cluster[n]))
                      \/ \E m \in 1..(n - 1) :
                             /\ Declared(command, Short(cluster[m]))
                             /\ ~is_arg_discrete(DeclaringArg(command, Short(cluster[m])))

\* C5: a requested target none of whose aliases occurs in the tokens yields None,
\* and the call completes without error or panic (stated for tokens that use
\* declared aliases only, which leaves out the lookup failure of section 7).
C5_AbsentIsNone ==
    (pc # "start" /\ OnlyDeclaredAliases /\ Absent(lex_arg)) =>
        /\ pc # "panic"
        /\ (pc = "done" => lex_location = None)

\* C7: once the index is built, looking up an alias succeeds if and only if some
\* argument declares it (canonical long, long alias, canonical short or short
\* alias), and it returns that argument; Long("x") and Short('x') are different keys.
C7_LookupIffDeclared ==
    IsSome(lex_arg_aliases) =>
        \A alias \in AliasUniverse :
            LET found == get(Unwrap(lex_arg_aliases), alias)
            IN /\ IsSome(found) <=> Declared(command, alias)
               /\ IsSome(found) => Unwrap(found) = DeclaringArg(command, alias)

-----------------------------------------------------------------------------
(* Claims about alias.rs's mapper and the locator's index (specification SpecAlias) *)

\* C12: over any sequence of alias lookups on one mapper (one locator), the list
\* of aliases is built at most once, by the first lookup, and every later lookup
\* reads that same list: it is neither rebuilt nor modified.
C12_BuildOnce ==
    /\ [](/\ builds.arg_aliases <= 1
          /\ builds.locator <= 1
          /\ (calls.get_arg >= 1 => builds.arg_aliases = 1)
          /\ (calls.get_arg_by_alias >= 1 => builds.locator = 1))
    /\ [][ /\ IsSome(mapper.arg_aliases) => mapper'.arg_aliases = mapper.arg_aliases
           /\ IsSome(arg_aliases) => arg_aliases' = arg_aliases ]_vars

\* A second lookup on the mapper has returned an argument, the list built once.
C12_Witness ==
    /\ called.fn = "get_arg"
    /\ calls.get_arg >= 2
    /\ builds.arg_aliases = 1
    /\ returned.kind = "Ok"

\* The subcommands that declare the text as their name or as one of their aliases.
DeclaringSubcommands(cmd, alias) ==
    {i \in 1..Len(get_subcommands(cmd)) :
        \/ alias = get_subcommands(cmd)[i].name
        \/ alias \in Range(command_get_all_aliases(get_subcommands(cmd)[i]))}

\* C17: get_derived_mapper called with the name or an alias of a subcommand returns
\* a mapper whose command is the subcommand that declares it, wherever that
\* subcommand stands in the list; with a text no subcommand declares it returns
\* Err; it never panics.
C17_DerivedMapper ==
    called.fn = "get_derived_mapper" =>
        LET declaring == DeclaringSubcommands(borrow_command(mapper), called.alias)
        IN /\ pc # "panic"
           /\ IF declaring # {}
              THEN /\ returned.kind = "Ok"
                   /\ \E i \in declaring :
                          returned.value.command
                              = get_subcommands(borrow_command(mapper))[i]
              ELSE returned.kind = "Err"

====
